---------------------------- MODULE Spec2Model ----------------------------
(***************************************************************************)
(* A model of src/app.py, the LeadGen AI Flow Streamlit script: the seed   *)
(* companies, filter_companies, add_insights, the two email generators and *)
(* the script body that Streamlit re-executes on every interaction.        *)
(*                                                                         *)
(* Python values are tagged records [t |-> type, v |-> value]; a dict is a *)
(* TLA+ function whose DOMAIN is its key set; a call either returns        *)
(* (Ret) or raises (Raise).  Python str is the TLA+ string, restricted to  *)
(* ASCII (the one non-ASCII character of the template body, the            *)
(* typographic apostrophe of line 184, is written ').  The backquote of    *)
(* a code fence is written ~ (BACKQUOTE), a character no modelled text     *)
(* holds otherwise.                                                        *)
(***************************************************************************)
EXTENDS Integers, Sequences, FiniteSets, TLC

VARIABLES
    GROQ_API_KEY,   \* app.py:17, read once when the process starts
    industry,       \* app.py:205, widget state kept across reruns
    location,       \* app.py:206
    size_min,       \* app.py:209
    size_max,       \* app.py:211
    run_btn,        \* app.py:218, TRUE only in the execution a Run press caused
    pc,             \* where the script execution stands
    filtered,       \* app.py:226
    i,              \* app.py:229, index of comp in filtered (1-based)
    results,        \* app.py:224
    inflight,       \* HTTP requests sent and not yet answered
    httpLog,        \* the companies an HTTP request was sent for, this execution
    answer,         \* what the remote did with the last request (NoResp: no request)
    hadResults,     \* some execution so far has rendered a Results section
    email,          \* app.py:231, the EmailResult of the last call (NoEmail: none yet)
    screen,         \* what the execution has rendered below the seed table
    items,          \* argument of the function under test
    query,          \* <<industry_q, location_q, size_min, size_max>> of the call under test
    op,             \* the function last applied
    arg,            \* the record it was applied to
    ret             \* what it returned or raised

appVars == <<GROQ_API_KEY, industry, location, size_min, size_max, run_btn, pc,
             filtered, i, results, inflight, httpLog, answer, hadResults,
             email, screen>>
fnVars  == <<items, query, op, arg, ret>>
vars    == <<appVars, fnVars>>

---------------------------------------------------------------------------
(* Python values, calls and str methods                                    *)

PyNone     == [t |-> "None", v |-> 0]
PyStr(s)   == [t |-> "str",  v |-> s]
PyInt(n)   == [t |-> "int",  v |-> n]
PyList(q)  == [t |-> "list", v |-> q]
PyDict(d)  == [t |-> "dict", v |-> d]

Ret(v)     == [ok |-> TRUE,  val |-> v]
Raise(e)   == [ok |-> FALSE, val |-> e]

\* Python truthiness of a value (what or and if test).
Truthy(x) ==
    CASE x.t = "None" -> FALSE
      [] x.t = "str"  -> x.v # ""
      [] x.t = "int"  -> x.v # 0
      [] x.t = "list" -> x.v # <<>>
      [] x.t = "dict" -> DOMAIN x.v # {}

\* a or b
Or(a, b) == IF Truthy(a) THEN a ELSE b

\* d.get(k, default) on a dict d (a TLA+ function)
get(d, k, default) == IF k \in DOMAIN d THEN d[k] ELSE default

\* d[k] = v
set(d, k, v) == (k :> v) @@ d

Min(a, b) == IF a < b THEN a ELSE b

At(s, k) == SubSeq(s, k, k)

UPPER  == "ABCDEFGHIJKLMNOPQRSTUVWXYZ"
LOWERC == "abcdefghijklmnopqrstuvwxyz"
DIGITS == "0123456789"

IsIn(c, alphabet) == \E k \in 1..Len(alphabet) : At(alphabet, k) = c

IndexIn(c, alphabet) == CHOOSE k \in 1..Len(alphabet) : At(alphabet, k) = c

IsSpace(c) == c \in {" ", "\n", "\t", "\r", "\f"}

\* \w of the re module, ASCII part
IsWord(c) == IsIn(c, UPPER) \/ IsIn(c, LOWERC) \/ IsIn(c, DIGITS) \/ c = "_"

lower_char(c) == IF IsIn(c, UPPER) THEN At(LOWERC, IndexIn(c, UPPER)) ELSE c

RECURSIVE lower(_)
lower(s) == IF s = "" THEN "" ELSE lower_char(At(s, 1)) \o lower(Tail(s))

\* s.strip(): leading and trailing whitespace removed
strip(s) ==
    LET keep == {k \in 1..Len(s) : ~IsSpace(At(s, k))}
    IN  IF keep = {} THEN ""
        ELSE SubSeq(s, CHOOSE k \in keep : \A m \in keep : k <= m,
                       CHOOSE k \in keep : \A m \in keep : k >= m)

\* s.strip(chars) for a one-character chars
strip_char(s, ch) ==
    LET keep == {k \in 1..Len(s) : At(s, k) # ch}
    IN  IF keep = {} THEN ""
        ELSE SubSeq(s, CHOOSE k \in keep : \A m \in keep : k <= m,
                       CHOOSE k \in keep : \A m \in keep : k >= m)

\* sub in s
Contains(s, sub) ==
    \E k \in 1..(Len(s) - Len(sub) + 1) : SubSeq(s, k, k + Len(sub) - 1) = sub

startswith(s, pre) == Len(pre) <= Len(s) /\ SubSeq(s, 1, Len(pre)) = pre

\* s[:n]
Slice(s, n) == SubSeq(s, 1, Min(n, Len(s)))

\* sep.join(parts) for a sequence of strings
RECURSIVE join(_, _)
join(sep, parts) ==
    IF parts = <<>> THEN ""
    ELSE IF Len(parts) = 1 THEN parts[1]
    ELSE parts[1] \o sep \o join(sep, Tail(parts))

\* s.splitlines(), for the line break "\n"
RECURSIVE splitlines(_)
splitlines(s) ==
    IF s = "" THEN <<>>
    ELSE LET brk == {k \in 1..Len(s) : At(s, k) = "\n"}
         IN  IF brk = {} THEN <<s>>
             ELSE LET b == CHOOSE k \in brk : \A m \in brk : k <= m
                  IN  <<SubSeq(s, 1, b - 1)>> \o splitlines(SubSeq(s, b + 1, Len(s)))

\* len(s.split()): the whitespace-delimited tokens of s
WordCount(s) ==
    Cardinality({k \in 1..Len(s) :
                    ~IsSpace(At(s, k)) /\ (k = 1 \/ IsSpace(At(s, k - 1)))})

\* str(n) for an integer
RECURSIVE nat_str(_)
nat_str(n) == IF n < 10 THEN At(DIGITS, n + 1)
              ELSE nat_str(n \div 10) \o At(DIGITS, (n % 10) + 1)

int_str(n) == IF n < 0 THEN "-" \o nat_str(-n) ELSE nat_str(n)

\* the value of a string of decimal digits
RECURSIVE digits_val(_)
digits_val(s) == IF s = "" THEN 0
                 ELSE 10 * digits_val(SubSeq(s, 1, Len(s) - 1))
                      + (IndexIn(At(s, Len(s)), DIGITS) - 1)

AllDigits(s) == s # "" /\ \A k \in 1..Len(s) : IsIn(At(s, k), DIGITS)

\* int(x): an int is itself; a str is parsed (surrounding whitespace and a
\* sign allowed) or raises ValueError; None raises TypeError.
py_int(x) ==
    CASE x.t = "int"  -> Ret(x.v)
      [] x.t = "str"  ->
            LET s    == strip(x.v)
                sign == s # "" /\ At(s, 1) \in {"+", "-"}
                d    == IF sign THEN Tail(s) ELSE s
            IN  IF AllDigits(d)
                THEN Ret(IF sign /\ At(s, 1) = "-" THEN -digits_val(d) ELSE digits_val(d))
                ELSE Raise("ValueError")
      [] OTHER        -> Raise("TypeError")

\* str(x), and what an f-string puts for {x}
py_str(x) ==
    CASE x.t = "str"  -> x.v
      [] x.t = "int"  -> int_str(x.v)
      [] x.t = "None" -> "None"

\* type(x).__name__, as exception messages print it
TypeName(x) == IF x.t = "None" THEN "NoneType" ELSE x.t

\* 'name', as exception messages quote it
Quote(name) == "'" \o name \o "'"

NoAttr(x, name) ==
    Raise(Quote(TypeName(x)) \o " object has no attribute " \o Quote(name))

NotSubscriptable(x) == Raise(Quote(TypeName(x)) \o " object is not subscriptable")

\* str() of the exceptions requests.post raises when the host is unreachable
\* or silent for 30 seconds
CONNECTION_ERROR ==
    "HTTPSConnectionPool(host='api.groq.com', port=443): Max retries exceeded"
READ_TIMEOUT ==
    "HTTPSConnectionPool(host='api.groq.com', port=443): Read timed out. (read timeout=30)"

---------------------------------------------------------------------------
(* Seed data, app.py:25-29                                                 *)

DEFAULT_MODEL == "moonshotai/kimi-k2-instruct"

SEED_COMPANIES ==
    << [companyName |-> PyStr("TechNova Solutions"),
        website |-> PyStr("https://technova.example"),
        employeeCount |-> PyInt(120),
        industry |-> PyStr("Software"),
        location |-> PyStr("Bengaluru, IN")],
       [companyName |-> PyStr("GreenMakers Manufacturing"),
        website |-> PyStr("https://greenmakers.example"),
        employeeCount |-> PyInt(80),
        industry |-> PyStr("Manufacturing"),
        location |-> PyStr("Pune, IN")],
       [companyName |-> PyStr("AeroLogix Systems"),
        website |-> PyStr("https://aerologix.example"),
        employeeCount |-> PyInt(210),
        industry |-> PyStr("Logistics"),
        location |-> PyStr("Hyderabad, IN")] >>

---------------------------------------------------------------------------
(* Helpers, app.py:34-82                                                   *)

MID_MARKET == 150
MAX_BULLETS == 3

\* re.search(r"\bIN\b|India", location, re.I)
LocationMatches(loc) ==
    LET l == lower(loc)
    IN  \/ \E k \in 1..(Len(l) - 1) :
              /\ SubSeq(l, k, k + 1) = "in"
              /\ (k = 1 \/ ~IsWord(At(l, k - 1)))
              /\ (k + 1 = Len(l) \/ ~IsWord(At(l, k + 2)))
        \/ Contains(l, "india")

\* app.py:40-56, the bullets the industry gives
IndustryBullets(ind) ==
    IF Contains(lower(ind), "software")
    THEN << "SaaS roadmap includes AI/ML modules",
            "Active in developer ecosystem; likely uses CI/CD" >>
    ELSE IF Contains(lower(ind), "manufact")
    THEN << "Sustainable, lean operations focus",
            "Potential need for shop-floor IoT/SCADA integrations" >>
    ELSE IF Contains(lower(ind), "logistic")
    THEN << "Fleet optimization & real-time tracking",
            "Likely evaluating warehouse automation" >>
    ELSE << "Expanding digital footprint" >>

SizeBullets(employee_count) ==
    IF employee_count > MID_MARKET
    THEN << "Mid-market team with scaling pains" >> ELSE << >>

LocationBullets(loc) ==
    IF LocationMatches(loc)
    THEN << "Operating in India with regional growth" >> ELSE << >>

\* Truncate without the cut
Truncate_none(bullets) == bullets

\* bullets[:3]
Truncate(bullets) == SubSeq(bullets, 1, Min(MAX_BULLETS, Len(bullets)))

add_insights(j) ==
    LET ind == Or(get(j, "industry", PyNone), PyStr(""))
        ec  == py_int(get(j, "employeeCount", PyInt(0)))
        loc == Or(get(j, "location", PyNone), PyStr(""))
    IN  IF ind.t # "str" THEN NoAttr(ind, "lower")
        ELSE IF ~ec.ok THEN ec
        ELSE IF loc.t # "str" THEN Raise("TypeError")
        ELSE Ret(Truncate(IndustryBullets(lower(ind.v)) \o SizeBullets(ec.val)
                          \o LocationBullets(loc.v)))

\* ok_size with the upper end of the range left out
ok_size_exclusive(employee_count, smin, smax) ==
    (employee_count >= smin) /\ (employee_count < smax)

\* app.py:76
ok_size(employee_count, smin, smax) ==
    (employee_count >= smin) /\ (employee_count <= smax)

\* app.py:77-78: (q in val) if q else True
ok_text(q, val) == IF q # "" THEN Contains(val, q) ELSE TRUE

\* app.py:71-81, the loop from item k on, out being the list so far
RECURSIVE filter_loop(_, _, _, _, _, _, _)
filter_loop(its, k, out, iq, lq, smin, smax) ==
    IF k > Len(its) THEN Ret(out)
    ELSE LET it  == its[k]
             ec  == py_int(get(it, "employeeCount", PyInt(0)))
             industry_val == lower(py_str(get(it, "industry", PyStr(""))))
             location_val == lower(py_str(get(it, "location", PyStr(""))))
         IN  IF ~ec.ok THEN ec
             ELSE filter_loop(its, k + 1,
                     IF ok_size(ec.val, smin, smax) /\ ok_text(iq, industry_val)
                        /\ ok_text(lq, location_val)
                     THEN Append(out, it) ELSE out,
                     iq, lq, smin, smax)

filter_companies(its, industry_q, location_q, smin, smax) ==
    filter_loop(its, 1, <<>>, strip(lower(industry_q)), strip(lower(location_q)),
                smin, smax)

---------------------------------------------------------------------------
(* Local template, app.py:177-195                                          *)

\* template_subject without .lower()
template_subject_verbatim(name, ind) ==
    name \o ": quick idea to accelerate " \o ind \o " goals"

\* app.py:191
template_subject(name, ind) ==
    name \o ": quick idea to accelerate " \o lower(ind) \o " goals"

generate_email_template(company, insights) ==
    LET name    == py_str(get(company, "companyName", PyNone))
        ind     == get(company, "industry", PyNone)
        bullets == join("; ", insights)
        body    == "Hi " \o name \o ",\n\n"
                   \o "I came across your work at " \o name \o " and noticed: "
                   \o bullets \o ". "
                   \o "We help teams like yours turn these priorities into measurable outcomes with a lightweight rollout and clear ROI within a few weeks. "
                   \o "If it's useful, I can share a brief walkthrough tailored to "
                   \o py_str(ind) \o " and your current team size of "
                   \o py_str(get(company, "employeeCount", PyNone)) \o ".\n\n"
                   \o "Warm Regards,\n"
                   \o "Rohith Dilip\n"
                   \o "Wednesday Solutions"
    IN  IF ind.t # "str" THEN NoAttr(ind, "lower")
        ELSE Ret([company   |-> get(company, "companyName", PyNone),
                  subject   |-> PyStr(template_subject(name, ind.v)),
                  body      |-> PyStr(body),
                  tone      |-> PyStr("consultative"),
                  wordCount |-> PyInt(WordCount(body))])

---------------------------------------------------------------------------
(* The remote service, app.py:120-139: what requests.post can do           *)

ENDPOINT == "https://api.groq.com/openai/v1/chat/completions"

\* json.loads on the documents the model feeds it; every other text the
\* model feeds it is not JSON, and json.loads raises JSONDecodeError.
FULL_DOC ==
    "{\"company\":\"Acme\",\"subject\":\"Hello\",\"body\":\"Hi there\",\"tone\":\"warm\",\"wordCount\":2}"
FALSY_DOC == "{\"subject\":\"\",\"body\":null,\"wordCount\":0}"

JSON_DOCS ==
    << << "{}", PyDict(<<>>) >>,
       << FULL_DOC, PyDict([company |-> PyStr("Acme"), subject |-> PyStr("Hello"),
                            body |-> PyStr("Hi there"), tone |-> PyStr("warm"),
                            wordCount |-> PyInt(2)]) >>,
       << FALSY_DOC, PyDict([subject |-> PyStr(""), body |-> PyNone,
                             wordCount |-> PyInt(0)]) >>,
       << "[1]", PyList(<<PyInt(1)>>) >>,
       << "null", PyNone >>,
       << "7", PyInt(7) >>,
       << "\"hi\"", PyStr("hi") >> >>

json_loads(s) ==
    LET t == strip(s)
    IN  IF \E k \in 1..Len(JSON_DOCS) : JSON_DOCS[k][1] = t
        THEN Ret(JSON_DOCS[CHOOSE k \in 1..Len(JSON_DOCS) : JSON_DOCS[k][1] = t][2])
        ELSE Raise("Expecting value: line 1 column 1 (char 0)")

BACKQUOTE == "~"
FENCE == BACKQUOTE \o BACKQUOTE \o BACKQUOTE

\* choices[0].message.content of a well-shaped completion
Contents ==
    { "{}", FULL_DOC, FALSY_DOC, " {} \n",
      FENCE \o "json\n" \o FULL_DOC \o "\n" \o FENCE,
      FENCE \o "json\n" \o FALSY_DOC \o "\n" \o FENCE,
      FENCE \o "\n{}\n" \o FENCE, FENCE \o "JSON\n[1]\n" \o FENCE,
      "[1]", "null", "7", "\"hi\"",
      "", "Sure! Here is the email you asked for.", FENCE }

Completion(content) ==
    PyDict([choices |-> PyList(<< PyDict([message |-> PyDict([content |-> content])]) >>)])

\* resp.json() of the bodies that are JSON
Bodies ==
    { PyList(<<>>), PyInt(7), PyNone,
      PyDict(<<>>),
      PyDict([error |-> PyStr("rate limited")]),
      PyDict([choices |-> PyNone]),
      PyDict([choices |-> PyList(<<>>)]),
      PyDict([choices |-> PyList(<<PyInt(7)>>)]),
      PyDict([choices |-> PyStr("x")]),
      PyDict([choices |-> PyInt(7)]),
      PyDict([choices |-> PyDict([k |-> PyInt(1)])]),
      PyDict([choices |-> PyList(<<PyDict(<<>>)>>)]),
      PyDict([choices |-> PyList(<<PyDict([message |-> PyNone])>>)]),
      PyDict([choices |-> PyList(<<PyDict([message |-> PyDict(<<>>)])>>)]),
      Completion(PyNone), Completion(PyInt(7)), Completion(PyList(<<>>)),
      Completion(PyDict(<<>>)) }
    \cup { Completion(PyStr(c)) : c \in Contents }

\* An answer of the remote: requests.post raised (exc, no resp), or resp with
\* its status_code, its text and what resp.json() gives.
NoResp == [raised |-> TRUE, exc |-> "", status |-> 0, text |-> "", json |-> Raise("")]

Ok200(data) ==
    [raised |-> FALSE, exc |-> "", status |-> 200, text |-> "<body>", json |-> Ret(data)]

\* The answers the running application is checked against: one or two of each
\* kind of Responses (the function-level specification goes through them all).
Answers ==
    { [NoResp EXCEPT !.exc = CONNECTION_ERROR],
      [NoResp EXCEPT !.exc = READ_TIMEOUT],
      [raised |-> FALSE, exc |-> "", status |-> 500, text |-> "{\"error\":\"denied\"}",
       json |-> Ret(PyDict([error |-> PyStr("denied")]))],
      [raised |-> FALSE, exc |-> "", status |-> 200, text |-> "<html>Bad gateway</html>",
       json |-> Raise("Expecting value: line 1 column 1 (char 0)")],
      Ok200(PyDict(<<>>)),
      Ok200(Completion(PyNone)),
      Ok200(Completion(PyStr("Sure! Here is the email you asked for."))),
      Ok200(Completion(PyStr("[1]"))),
      Ok200(Completion(PyStr(FULL_DOC))),
      Ok200(Completion(PyStr(FENCE \o "json\n" \o FALSY_DOC \o "\n" \o FENCE))) }

\* Everything the remote is modelled to answer
Responses ==
    { [NoResp EXCEPT !.exc = e] :
        e \in {CONNECTION_ERROR, READ_TIMEOUT} }
    \cup { [raised |-> FALSE, exc |-> "", status |-> st, text |-> "{\"error\":\"denied\"}",
            json |-> Ret(PyDict([error |-> PyStr("denied")]))] : st \in {401, 500} }
    \cup { [raised |-> FALSE, exc |-> "", status |-> 200, text |-> "<html>Bad gateway</html>",
            json |-> Raise("Expecting value: line 1 column 1 (char 0)")] }
    \cup { Ok200(b) : b \in Bodies }
    \cup Answers

\* resp.raise_for_status(): HTTPError for 4xx and 5xx
raise_for_status(resp) ==
    IF resp.status >= 400 /\ resp.status < 600
    THEN Raise(int_str(resp.status) \o " "
               \o (IF resp.status < 500 THEN "Client" ELSE "Server")
               \o " Error for url: " \o ENDPOINT)
    ELSE Ret(PyNone)

\* seq[0] of line 139
first_item(c) ==
    CASE c.t = "list" -> Ret(c.v[1])
      [] c.t = "str"  -> Ret(PyStr(At(c.v, 1)))
      [] c.t = "dict" -> Raise("0")
      [] OTHER        -> NotSubscriptable(c)

\* app.py:138-139: content, or the exception its extraction raises
extract_content(data) ==
    IF data.t # "dict" THEN NoAttr(data, "get")
    ELSE LET first == first_item(Or(get(data.v, "choices", PyNone),
                                    PyList(<<PyDict(<<>>)>>)))
         IN  IF ~first.ok THEN first
             ELSE IF first.val.t # "dict" THEN NoAttr(first.val, "get")
             ELSE LET message == get(first.val.v, "message", PyDict(<<>>))
                  IN  IF message.t # "dict" THEN NoAttr(message, "get")
                      ELSE Ret(get(message.v, "content", PyStr("")))

\* app.py:141-147
clean(content) ==
    LET cleaned == strip(content)
    IN  IF startswith(cleaned, FENCE)
        THEN LET unfenced == strip_char(cleaned, BACKQUOTE)
                 cleaned_lines == splitlines(unfenced)
             IN  join("\n",
                      IF cleaned_lines # <<>> /\ lower(strip(cleaned_lines[1])) = "json"
                      THEN Tail(cleaned_lines) ELSE cleaned_lines)
        ELSE cleaned

---------------------------------------------------------------------------
(* generate_email_with_groq, app.py:87-175.  resp is the answer of the     *)
(* remote to the one request of lines 121-136 (unused without a key).      *)

TEXT_LIMIT == 300

\* template_fallback that forgets to record why it fell back
template_fallback_no_error(company, insights, error) ==
    LET t == generate_email_template(company, insights)
    IN  IF t.ok THEN Ret(set(t.val, "source", PyStr("template"))) ELSE t

\* app.py:94-96, 161-163, 167-174: the template result marked as a fallback
template_fallback(company, insights, error) ==
    LET t == generate_email_template(company, insights)
    IN  IF t.ok
        THEN Ret(set(set(t.val, "source", PyStr("template")), "error", PyStr(error)))
        ELSE t

\* app.py:151-158
groq_result(obj, company) ==
    [company   |-> Or(get(obj, "company", PyNone), get(company, "companyName", PyNone)),
     subject   |-> Or(get(obj, "subject", PyNone), PyStr("Exploring a tailored approach")),
     body      |-> Or(get(obj, "body", PyNone), PyStr("")),
     tone      |-> Or(get(obj, "tone", PyNone), PyStr("consultative")),
     wordCount |-> Or(get(obj, "wordCount", PyNone), PyNone),
     source    |-> PyStr("groq")]

\* app.py:149-164, the inner try: Ret(result), or Raise when the handler
\* itself raises (which the outer handler then catches)
parse_content(company, insights, content) ==
    LET obj == json_loads(clean(content))
        parse_err == IF ~obj.ok THEN obj
                     ELSE IF obj.val.t # "dict" THEN NoAttr(obj.val, "get")
                     ELSE Ret(PyNone)
    IN  IF parse_err.ok THEN Ret(groq_result(obj.val.v, company))
        ELSE template_fallback(company, insights,
                 "ParseError: " \o parse_err.val \o "; content="
                 \o Slice(content, TEXT_LIMIT) \o "...")

\* app.py:121-164, the outer try: Ret(result) when it returns, Raise(str(req_err))
\* when an exception reaches line 166
try_request(company, insights, resp) ==
    IF resp.raised THEN Raise(resp.exc)
    ELSE IF ~raise_for_status(resp).ok THEN raise_for_status(resp)
    ELSE IF ~resp.json.ok THEN resp.json
    ELSE LET content == extract_content(resp.json.val)
         IN  IF ~content.ok THEN content
             ELSE IF content.val.t # "str" THEN NoAttr(content.val, "strip")
             ELSE parse_content(company, insights, content.val.v)

\* app.py:169-173
err_text(resp) == IF resp.raised THEN "" ELSE Slice(resp.text, TEXT_LIMIT)

\* has_key testing for None only, so that an empty key counts as a key
has_key_not_none(api_key) == api_key.t # "None"

\* app.py:93, whether lines 99-175 (the request) run
has_key(api_key) == Truthy(api_key)

\* generate_email_with_groq without the handler of line 166
generate_email_with_groq_uncaught(company, insights, api_key, resp) ==
    IF ~has_key(api_key)
    THEN template_fallback(company, insights, "Missing GROQ_API_KEY")
    ELSE try_request(company, insights, resp)

generate_email_with_groq(company, insights, api_key, resp) ==
    IF ~has_key(api_key)
    THEN template_fallback(company, insights, "Missing GROQ_API_KEY")
    ELSE LET r == try_request(company, insights, resp)
         IN  IF r.ok THEN r
             ELSE template_fallback(company, insights,
                      "RequestError: " \o r.val \o "; response=" \o err_text(resp))

\* app.py:121-136, the request sent for a company
Request(company, api_key) ==
    [url     |-> ENDPOINT,
     auth    |-> "Bearer " \o py_str(api_key),
     model   |-> DEFAULT_MODEL,
     company |-> py_str(get(company, "companyName", PyNone)),
     timeout |-> 30]

---------------------------------------------------------------------------
(* The script body, app.py:200-258                                         *)

COLUMNS == << "Company Name", "Subject", "Body For Email", "Tone", "Word Count",
              "Source", "LLM Error", "Website", "Industry", "Employees",
              "Location", "Insights" >>

\* app.py:232-245
Row(em, comp, ins) ==
    [k \in {COLUMNS[n] : n \in 1..Len(COLUMNS)} |->
        CASE k = "Company Name"   -> get(em, "company", PyNone)
          [] k = "Subject"        -> get(em, "subject", PyNone)
          [] k = "Body For Email" -> get(em, "body", PyNone)
          [] k = "Tone"           -> get(em, "tone", PyNone)
          [] k = "Word Count"     -> get(em, "wordCount", PyNone)
          [] k = "Source"         -> get(em, "source", PyNone)
          [] k = "LLM Error"      -> get(em, "error", PyNone)
          [] k = "Website"        -> get(comp, "website", PyNone)
          [] k = "Industry"       -> get(comp, "industry", PyNone)
          [] k = "Employees"      -> get(comp, "employeeCount", PyNone)
          [] k = "Location"       -> get(comp, "location", PyNone)
          [] k = "Insights"       -> PyStr(join("\n", ins))]

\* app.py:253, df.to_csv(index=False): the header, then a line of cells per row
to_csv(rows) ==
    << COLUMNS >> \o [n \in 1..Len(rows) |-> [c \in 1..Len(COLUMNS) |-> rows[n][COLUMNS[c]]]]

NoEmail == << >>

Blank == [warning |-> FALSE, results_section |-> FALSE, table |-> << >>,
          csv |-> << >>, sample_json |-> << >>]

\* what the operator may type into the sidebar (app.py:205-211)
IndustryInputs == {"", " SOFT", "nonexistent-xyz"}
LocationInputs == {"", "IN", "pune "}
SizeMinInputs  == {0, 100}
SizeMaxInputs  == {79, 150, 999999}
KeyInputs      == {PyNone, PyStr(""), PyStr("gsk_test")}

\* one of the operator's interactions: Streamlit runs the script again
Rerun(pressed) ==
    /\ run_btn' = pressed
    /\ pc' = "start"
    /\ UNCHANGED <<GROQ_API_KEY, filtered, i, results, inflight, httpLog, answer,
                   hadResults, email, screen>>
    /\ UNCHANGED fnVars

ChangeIndustry ==
    /\ pc = "idle"
    /\ \E v \in IndustryInputs \ {industry} : industry' = v
    /\ Rerun(FALSE)
    /\ UNCHANGED <<location, size_min, size_max>>

ChangeLocation ==
    /\ pc = "idle"
    /\ \E v \in LocationInputs \ {location} : location' = v
    /\ Rerun(FALSE)
    /\ UNCHANGED <<industry, size_min, size_max>>

ChangeSizeMin ==
    /\ pc = "idle"
    /\ \E v \in SizeMinInputs \ {size_min} : size_min' = v
    /\ Rerun(FALSE)
    /\ UNCHANGED <<industry, location, size_max>>

ChangeSizeMax ==
    /\ pc = "idle"
    /\ \E v \in SizeMaxInputs \ {size_max} : size_max' = v
    /\ Rerun(FALSE)
    /\ UNCHANGED <<industry, location, size_min>>

\* app.py:218
PressRun ==
    /\ pc = "idle"
    /\ Rerun(TRUE)
    /\ UNCHANGED <<industry, location, size_min, size_max>>

\* app.py:254, the button exists only while the Results section is shown
PressDownload ==
    /\ pc = "idle"
    /\ screen.results_section
    /\ Rerun(FALSE)
    /\ UNCHANGED <<industry, location, size_min, size_max>>

\* results kept from the execution before
stale_results == results

\* app.py:224, results = []: every execution starts from the empty list
fresh_results == << >>

\* app.py:200-228: the page is drawn anew, results = [], and on Run the filter
ScriptStart ==
    /\ pc = "start"
    /\ results' = fresh_results
    /\ email' = NoEmail
    /\ httpLog' = << >>
    /\ answer' = NoResp
    /\ i' = 1
    /\ IF run_btn
       THEN LET f == filter_companies(SEED_COMPANIES, industry, location,
                                      size_min, size_max)
            IN  IF f.ok
                THEN /\ filtered' = f.val
                     /\ screen' = [Blank EXCEPT !.warning = (f.val = << >>)]
                     /\ pc' = "loop"
                ELSE /\ filtered' = << >>
                     /\ screen' = Blank
                     /\ pc' = "crashed"
       ELSE /\ filtered' = << >>
            /\ screen' = Blank
            /\ pc' = "render"
    /\ UNCHANGED <<GROQ_API_KEY, industry, location, size_min, size_max, run_btn,
                   inflight, hadResults>>
    /\ UNCHANGED fnVars

\* Collect that calls again for a company whose call fell back to the template
Collect_retry(em, comp, ins) ==
    IF em.ok /\ em.val.source = PyStr("groq")
    THEN /\ email' = em.val
         /\ results' = Append(results, Row(em.val, comp, ins))
         /\ i' = i + 1
         /\ pc' = "loop"
    ELSE /\ pc' = "loop"
         /\ UNCHANGED <<email, results, i>>

\* app.py:232-245 after the call of line 231 gave em (Ret or Raise)
Collect(em, comp, ins) ==
    IF em.ok
    THEN /\ email' = em.val
         /\ results' = Append(results, Row(em.val, comp, ins))
         /\ i' = i + 1
         /\ pc' = "loop"
    ELSE /\ pc' = "crashed"
         /\ UNCHANGED <<email, results, i>>

\* app.py:229-245 for a company when line 93 finds no key: no request
LoopTemplate ==
    /\ pc = "loop"
    /\ i <= Len(filtered)
    /\ ~has_key(GROQ_API_KEY)
    /\ LET comp == filtered[i]
           ins  == add_insights(comp)
       IN  IF ins.ok
           THEN Collect(generate_email_with_groq(comp, ins.val, GROQ_API_KEY, NoResp),
                        comp, ins.val)
           ELSE /\ pc' = "crashed"
                /\ UNCHANGED <<email, results, i>>
    /\ answer' = NoResp
    /\ UNCHANGED <<GROQ_API_KEY, industry, location, size_min, size_max, run_btn,
                   filtered, inflight, httpLog, hadResults, screen>>
    /\ UNCHANGED fnVars

\* app.py:229-230, 92-136: the request of the company goes out, the script blocks
HttpSend ==
    /\ pc = "loop"
    /\ i <= Len(filtered)
    /\ has_key(GROQ_API_KEY)
    /\ IF add_insights(filtered[i]).ok
       THEN /\ inflight' = inflight \cup {Request(filtered[i], GROQ_API_KEY)}
            /\ httpLog' = Append(httpLog, Request(filtered[i], GROQ_API_KEY).company)
            /\ pc' = "http"
       ELSE /\ pc' = "crashed"
            /\ UNCHANGED <<inflight, httpLog>>
    /\ UNCHANGED <<GROQ_API_KEY, industry, location, size_min, size_max, run_btn,
                   filtered, i, results, answer, hadResults, email, screen>>
    /\ UNCHANGED fnVars

\* app.py:137-175, 232-245: the remote answers (or the call fails), the row is added
HttpReceive ==
    /\ pc = "http"
    /\ \E resp \in Answers :
         LET comp == filtered[i]
             ins  == add_insights(comp).val
         IN  /\ answer' = resp
             /\ Collect(generate_email_with_groq(comp, ins, GROQ_API_KEY, resp), comp, ins)
    /\ inflight' = inflight \ {Request(filtered[i], GROQ_API_KEY)}
    /\ UNCHANGED <<GROQ_API_KEY, industry, location, size_min, size_max, run_btn,
                   filtered, httpLog, hadResults, screen>>
    /\ UNCHANGED fnVars

\* app.py:229, the for loop is exhausted
LoopDone ==
    /\ pc = "loop"
    /\ i > Len(filtered)
    /\ pc' = "render"
    /\ UNCHANGED <<GROQ_API_KEY, industry, location, size_min, size_max, run_btn,
                   filtered, i, results, inflight, httpLog, answer, hadResults, email,
                   screen>>
    /\ UNCHANGED fnVars

\* app.py:247-258
Render ==
    /\ pc = "render"
    /\ screen' = IF results # << >>
                 THEN [screen EXCEPT !.results_section = TRUE,
                                     !.table = results,
                                     !.csv = to_csv(results),
                                     !.sample_json = results[1]]
                 ELSE screen
    /\ hadResults' = (hadResults \/ results # << >>)
    /\ pc' = "idle"
    /\ UNCHANGED <<GROQ_API_KEY, industry, location, size_min, size_max, run_btn,
                   filtered, i, results, inflight, httpLog, answer, email>>
    /\ UNCHANGED fnVars

\* the state the function-level variables keep while the application runs
FnIdle ==
    /\ items = << >>
    /\ query = << "", "", 0, 999999 >>
    /\ op = "none"
    /\ arg = << >>
    /\ ret = Ret(PyNone)

\* The process starts: the key is read (app.py:17), the widgets hold their
\* defaults (app.py:205-211) and the script is about to run for the first time.
AppStart ==
    /\ industry = ""
    /\ location = ""
    /\ size_min = 0
    /\ size_max = 999999
    /\ run_btn = FALSE
    /\ pc = "start"
    /\ filtered = << >>
    /\ i = 1
    /\ results = << >>
    /\ inflight = {}
    /\ httpLog = << >>
    /\ answer = NoResp
    /\ hadResults = FALSE
    /\ email = NoEmail
    /\ screen = Blank

Init ==
    /\ GROQ_API_KEY \in KeyInputs
    /\ AppStart
    /\ FnIdle

Next ==
    \/ ChangeIndustry
    \/ ChangeLocation
    \/ ChangeSizeMin
    \/ ChangeSizeMax
    \/ PressRun
    \/ PressDownload
    \/ ScriptStart
    \/ LoopTemplate
    \/ HttpSend
    \/ HttpReceive
    \/ LoopDone
    \/ Render

Spec == Init /\ [][Next]_vars

---------------------------------------------------------------------------
(* The functions on their own: the arguments are drawn when a behaviour    *)
(* starts, and each behaviour applies one function to them.                *)

MaxItems == 2

Absent == [t |-> "absent", v |-> 0]

\* the dict with the keys of f that are not Absent
MkRecord(f) == [k \in {x \in DOMAIN f : f[x] # Absent} |-> f[k]]

IndustryValues ==
    {Absent, PyNone, PyStr(""), PyStr("Software"), PyStr("MANUFACTURING"),
     PyStr("Logistics"), PyStr("Retail")}
LocationValues ==
    {Absent, PyNone, PyStr("Pune, IN"), PyStr("south india"), PyStr("Berlin"),
     PyStr("Remote")}
CountValues ==
    {Absent, PyNone, PyStr("abc"), PyStr(" 42 "), PyInt(0), PyInt(80), PyInt(150),
     PyInt(151), PyInt(210)}

Records ==
    { MkRecord([companyName |-> PyStr("Acme Corp"), website |-> PyStr("https://acme.example"),
                employeeCount |-> ec, industry |-> ind, location |-> loc]) :
        ec \in CountValues, ind \in IndustryValues, loc \in LocationValues }

RECURSIVE ListsOver(_, _)
ListsOver(S, n) ==
    IF n = 0 THEN { << >> }
    ELSE LET shorter == ListsOver(S, n - 1)
         IN  shorter \cup { Append(l, x) : l \in {m \in shorter : Len(m) = n - 1}, x \in S }

\* every list of up to MaxItems seed companies, and every single record
ItemLists ==
    ListsOver({SEED_COMPANIES[n] : n \in 1..Len(SEED_COMPANIES)}, MaxItems)
    \cup { << r >> : r \in Records }

Queries ==
    { << iq, lq, r[1], r[2] >> :
        iq \in {"", " SOFT", "manu"}, lq \in {"", "IN "},
        r \in { <<0, 999999>>, <<100, 150>>, <<151, 999999>>, <<0, 79>> } }

FnInit ==
    /\ GROQ_API_KEY = PyNone
    /\ AppStart
    /\ items \in ItemLists
    /\ query = << "", "", 0, 999999 >>
    /\ op = "none"
    /\ arg = << >>
    /\ ret = Ret(PyNone)

CallFilter ==
    /\ op = "none"
    /\ \E q \in Queries :
         /\ query' = q
         /\ ret' = filter_companies(items, q[1], q[2], q[3], q[4])
    /\ op' = "filter_companies"
    /\ UNCHANGED <<items, arg, appVars>>

CallInsights ==
    /\ op = "none"
    /\ \E k \in 1..Len(items) :
         /\ arg' = [company |-> items[k]]
         /\ ret' = add_insights(items[k])
    /\ op' = "add_insights"
    /\ UNCHANGED <<items, query, appVars>>

\* the insights a caller may pass for a company: its own, or none
InsightsFor(company) ==
    { << >> } \cup (IF add_insights(company).ok THEN {add_insights(company).val} ELSE {})

CallTemplate ==
    /\ op = "none"
    /\ \E k \in 1..Len(items) : \E ins \in InsightsFor(items[k]) :
         /\ arg' = [company |-> items[k], insights |-> ins]
         /\ ret' = generate_email_template(items[k], ins)
    /\ op' = "generate_email_template"
    /\ UNCHANGED <<items, query, appVars>>

\* the call of app.py:231, with the insights of line 230; without a key no
\* request is made and there is no answer to draw
CallGroq ==
    /\ op = "none"
    /\ \E k \in 1..Len(items) : \E key \in KeyInputs :
       \E resp \in (IF has_key(key) THEN Responses ELSE {NoResp}) :
         /\ add_insights(items[k]).ok
         /\ arg' = [company |-> items[k], insights |-> add_insights(items[k]).val,
                    api_key |-> key, resp |-> resp]
         /\ ret' = generate_email_with_groq(items[k], add_insights(items[k]).val,
                                            key, resp)
    /\ op' = "generate_email_with_groq"
    /\ UNCHANGED <<items, query, appVars>>

FnNext ==
    \/ CallFilter
    \/ CallInsights
    \/ CallTemplate
    \/ CallGroq

SpecFn == FnInit /\ [][FnNext]_vars

---------------------------------------------------------------------------
(* The claims                                                              *)

Range(q) == {q[n] : n \in 1..Len(q)}

\* a record of the CompanyRecord shape: the three fields the helpers read are
\* there, an integer and two strings
WellFormed(rec) ==
    /\ {"employeeCount", "industry", "location"} \subseteq DOMAIN rec
    /\ rec.employeeCount.t = "int"
    /\ rec.industry.t = "str"
    /\ rec.location.t = "str"

\* the trimmed, lower-cased query
QNorm(q) == strip(lower(q))

\* the matching rule of the Filter Engine, for a well-formed record
Matches(rec, iq, lq, smin, smax) ==
    /\ smin <= rec.employeeCount.v
    /\ rec.employeeCount.v <= smax
    /\ (QNorm(iq) = "" \/ Contains(lower(rec.industry.v), QNorm(iq)))
    /\ (QNorm(lq) = "" \/ Contains(lower(rec.location.v), QNorm(lq)))

\* C1: filter_companies returns exactly the records of its input that match
\* (size within [sizeMin, sizeMax], industry and location containing the trimmed,
\* lower-cased queries or the query empty), in input order, none dropped,
\* duplicated or reordered.
C1_FilterExact ==
    (op = "filter_companies" /\ \A n \in 1..Len(items) : WellFormed(items[n]))
    => /\ ret.ok
       /\ ret.val = SelectSeq(items,
                       LAMBDA r : Matches(r, query[1], query[2], query[3], query[4]))

C1_Witness ==
    /\ op = "filter_companies"
    /\ Len(items) = 2
    /\ items[1] = items[2]
    /\ query[1] # ""
    /\ ret.ok
    /\ Len(ret.val) = 2

INDIA_INSIGHT == "Operating in India with regional growth"
SIZE_INSIGHT == "Mid-market team with scaling pains"

IndustryMatched(ind) ==
    \E w \in {"software", "manufact", "logistic"} : Contains(lower(ind), w)

\* the fields add_insights reads, as it reads them
InsightIndustry(j) == Or(get(j, "industry", PyNone), PyStr("")).v
InsightLocation(j) == Or(get(j, "location", PyNone), PyStr("")).v
InsightCount(j)    == py_int(get(j, "employeeCount", PyInt(0))).val

\* C2: add_insights returns the first 3 entries of: the industry insight(s) (two
\* when the industry matched, else the single default), then the size insight iff
\* employeeCount > 150, then the India insight iff the location matches; never more
\* than 3 entries, and the India insight is dropped exactly when an industry
\* matched and employeeCount > 150.
C2_InsightsPriority ==
    (op = "add_insights" /\ ret.ok)
    => LET j    == arg.company
           head == IF IndustryMatched(InsightIndustry(j))
                   THEN IndustryBullets(InsightIndustry(j))
                   ELSE << "Expanding digital footprint" >>
           all  == head
                   \o (IF InsightCount(j) > 150 THEN << SIZE_INSIGHT >> ELSE << >>)
                   \o (IF LocationMatches(InsightLocation(j))
                       THEN << INDIA_INSIGHT >> ELSE << >>)
       IN  /\ Len(ret.val) <= 3
           /\ Len(head) = (IF IndustryMatched(InsightIndustry(j)) THEN 2 ELSE 1)
           /\ ret.val = SubSeq(all, 1, Min(3, Len(all)))
           /\ LocationMatches(InsightLocation(j))
              => ((INDIA_INSIGHT \notin Range(ret.val))
                  <=> (IndustryMatched(InsightIndustry(j)) /\ InsightCount(j) > 150))

C2_Witness ==
    /\ op = "add_insights"
    /\ ret.ok
    /\ LocationMatches(InsightLocation(arg.company))
    /\ Len(ret.val) = 3
    /\ INDIA_INSIGHT \notin Range(ret.val)

\* every answer but a completion whose content is the text of a JSON object
WellShaped(data) ==
    /\ data.t = "dict"
    /\ "choices" \in DOMAIN data.v
    /\ data.v.choices.t = "list"
    /\ data.v.choices.v # << >>
    /\ data.v.choices.v[1].t = "dict"
    /\ "message" \in DOMAIN data.v.choices.v[1].v
    /\ data.v.choices.v[1].v.message.t = "dict"

ContentOf(data) == get(data.v.choices.v[1].v.message.v, "content", Absent)

RemoteFailed(resp) ==
    \/ resp.raised
    \/ resp.status # 200
    \/ ~resp.json.ok
    \/ ~WellShaped(resp.json.val)
    \/ ContentOf(resp.json.val).t # "str"
    \/ ~json_loads(clean(ContentOf(resp.json.val).v)).ok
    \/ json_loads(clean(ContentOf(resp.json.val).v)).val.t # "dict"

HasEmail == DOMAIN email # {}

\* C3: whatever the remote call does, generate_email_with_groq raises nothing; a
\* failed call gives a result with source "template" and a non-empty error, and
\* the run goes on: it ends with one ResultRow per matching company.
C3_FailuresAbsorbed ==
    /\ pc # "crashed"
    /\ (HasEmail /\ has_key(GROQ_API_KEY) /\ RemoteFailed(answer))
       => /\ email.source = PyStr("template")
          /\ "error" \in DOMAIN email
          /\ email.error.t = "str"
          /\ email.error.v # ""
    /\ (pc \in {"render", "idle"} /\ run_btn) => Len(results) = Len(filtered)

C3_Witness ==
    /\ pc = "idle"
    /\ has_key(GROQ_API_KEY)
    /\ Len(filtered) = 3
    /\ Len(results) = 3
    /\ answer.raised
    /\ results[1]["Source"] = PyStr("template")
    /\ results[2]["Source"] = PyStr("groq")
    /\ results[3]["Source"] = PyStr("template")

\* C4: without a credential generate_email_with_groq sends no HTTP request and
\* returns source "template", error "Missing GROQ_API_KEY", and the subject,
\* body, tone and wordCount of generate_email_template for the same company and
\* insights.
C4_NoKeyTemplate ==
    (~Truthy(GROQ_API_KEY))
    => /\ inflight = {}
       /\ httpLog = << >>
       /\ pc # "http"
       /\ HasEmail
          => LET comp == filtered[i - 1]
                 t    == generate_email_template(comp, add_insights(comp).val)
             IN  /\ email.source = PyStr("template")
                 /\ email.error = PyStr("Missing GROQ_API_KEY")
                 /\ t.ok
                 /\ \A k \in {"subject", "body", "tone", "wordCount"} : email[k] = t.val[k]

C4_Witness ==
    /\ ~Truthy(GROQ_API_KEY)
    /\ GROQ_API_KEY = PyStr("")
    /\ pc = "idle"
    /\ Len(results) = 3
    /\ HasEmail

\* C5: with a credential and a successful HTTP call whose first choice's message
\* content is not the text of a JSON object (absent, null, not a string, or JSON
\* that is no object), the result has source "template" and an error starting
\* "ParseError:".
C5_BadContentIsParseError ==
    ( /\ op = "generate_email_with_groq"
      /\ has_key(arg.api_key)
      /\ ~arg.resp.raised
      /\ arg.resp.status = 200
      /\ arg.resp.json.ok
      /\ WellShaped(arg.resp.json.val)
      /\ RemoteFailed(arg.resp)
      /\ ret.ok )
    => /\ ret.val.source = PyStr("template")
       /\ startswith(ret.val.error.v, "ParseError:")

\* C6: the HTTP calls of an execution go out one at a time, in filtered order, at
\* most one per matching company and none for a company that did not match;
\* no call is repeated, and none is made without a credential.  (At "start" the
\* log is still the one of the execution before, made under its filter values.)
C6_OneCallPerCompany ==
    /\ Cardinality(inflight) <= 1
    /\ (inflight # {}) <=> (pc = "http")
    /\ Len(httpLog) <= Len(filtered)
    /\ \A n \in 1..Len(httpLog) : httpLog[n] = filtered[n].companyName.v
    /\ (pc # "start") => \A n \in 1..Len(httpLog) :
          \E m \in 1..Len(SEED_COMPANIES) :
             /\ SEED_COMPANIES[m].companyName.v = httpLog[n]
             /\ Matches(SEED_COMPANIES[m], industry, location, size_min, size_max)
    /\ has_key(GROQ_API_KEY) => Len(httpLog) = Len(results) + Cardinality(inflight)
    /\ ~has_key(GROQ_API_KEY) => httpLog = << >>

C6_Witness ==
    /\ pc = "idle"
    /\ Len(httpLog) = 2
    /\ Len(filtered) = 2
    /\ answer.raised
    /\ results[1]["Source"] = PyStr("template")

\* the seed companies the current filter values select
Expected ==
    SelectSeq(SEED_COMPANIES, LAMBDA r : Matches(r, industry, location, size_min, size_max))

\* C7: an execution's ResultRows are one per filtered company, in filtered order,
\* when Run was pressed for it and none otherwise; the Results section (table, CSV,
\* sample JSON of the first row) is rendered iff there are rows, the warning iff
\* Run was pressed and nothing matched; rows of an earlier execution are not shown.
C7_RowsOfThisExecution ==
    (pc = "idle")
    => LET want == IF run_btn THEN Expected ELSE << >>
       IN  /\ Len(results) = Len(want)
           /\ \A n \in 1..Len(want) :
                 /\ results[n]["Website"] = want[n].website
                 /\ results[n]["Employees"] = want[n].employeeCount
           /\ screen.results_section <=> (results # << >>)
           /\ screen.table = results
           /\ screen.results_section
              => /\ Len(screen.csv) = Len(results) + 1
                 /\ screen.csv[1] = COLUMNS
                 /\ screen.sample_json = results[1]
           /\ screen.warning <=> (run_btn /\ Expected = << >>)

C7_Witness ==
    /\ pc = "idle"
    /\ hadResults
    /\ ~run_btn
    /\ ~screen.results_section
    /\ Expected # << >>

TemplateIndustry == get(arg.company, "industry", PyNone)

TailoredTo(ind) ==
    "tailored to " \o ind \o " and your current team size of "
    \o py_str(get(arg.company, "employeeCount", PyNone)) \o "."

TemplateSubject(ind) ==
    py_str(get(arg.company, "companyName", PyNone)) \o ": quick idea to accelerate "
    \o ind \o " goals"

C9_Total ==
    (op \in {"filter_companies", "add_insights"}) => ret.ok

\* C10: every EmailResult generate_email_with_groq returns has source "groq" or
\* "template", and an error field iff the source is "template": then a non-empty
\* string starting "Missing GROQ_API_KEY", "RequestError: " or "ParseError: ".
C10_ErrorIffTemplate ==
    (op = "generate_email_with_groq" /\ ret.ok)
    => /\ ret.val.source \in {PyStr("groq"), PyStr("template")}
       /\ ("error" \in DOMAIN ret.val) <=> (ret.val.source = PyStr("template"))
       /\ ("error" \in DOMAIN ret.val)
          => /\ ret.val.error.t = "str"
             /\ ret.val.error.v # ""
             /\ \E pre \in {"Missing GROQ_API_KEY", "RequestError: ", "ParseError: "} :
                   startswith(ret.val.error.v, pre)

C10_Witness ==
    /\ op = "generate_email_with_groq"
    /\ ret.ok
    /\ ret.val.source = PyStr("groq")
    /\ "error" \notin DOMAIN ret.val
    /\ arg.resp.status = 200

===========================================================================
